---- MODULE Spec2Model ----
(***************************************************************************)
(* Model of package grpc_conn (bredtape/grpc): one Conn, its sync.Once     *)
(* guarded Start, the reconnect loop and the GetConnection rendezvous      *)
(* (Spec, FairSpec); the constructor New (NewSpec); the Pool (PoolSpec).   *)
(*                                                                         *)
(* The repository carries three revisions of the Conn source.  The         *)
(* variable `variant` selects which one a behaviour runs:                  *)
(*   "conn_go"  - src/conn.go            (Start runs the loop inline, the  *)
(*                serve loop selects on the dial-timeout context)          *)
(*   "part_001" - src/unnamed/part_001   (go c.loop, grpc.DialContext)     *)
(*   "part_000" - src/unnamed/part_000   (go c.loop, grpc.NewClient,       *)
(*                connection-state watcher)                                *)
(***************************************************************************)
EXTENDS Integers, Naturals, FiniteSets, Sequences, TLC

\* ---------------------------------------------------------------- bounds
NStarters == 2      \* goroutines that call Start (one call each)
NCallers  == 2      \* goroutines that call GetConnection (any number of times)
MaxDials  == 3      \* cap on the dial attempts of one loop
NCtx      == 2      \* distinct contexts that may be passed to Start
MaxNameLen == 1     \* length of a `name` argument
MaxAddrLen == 3     \* length of an `address` argument
MaxOpts   == 2      \* number of Options values passed to New
MaxConns  == 2      \* Conns constructed before a Pool is built
MaxPool   == 3      \* length of NewPool's argument list

Starters == 1..NStarters
Callers  == 1..NCallers
Ctxs     == 1..NCtx
Variants == {"conn_go", "part_000", "part_001"}

VARIABLES
  variant,      \* which revision of the source runs
  ctxDone,      \* ctxDone[k]: context k (a Start argument) is cancelled
  startPc,      \* startPc[s]: position of Start call s
  startCtx,     \* startCtx[s]: the ctx argument of Start call s in progress (else 0)
  onceState,    \* Conn.once: "fresh", "running" (f executing), "done"
  loopLaunches, \* number of times c.loop has been entered
  loopCtx,      \* the ctx argument of c.loop (0: loop never launched)
  loopOwner,    \* conn.go: the Start call whose goroutine runs the loop
  loopPc,       \* position of the loop
  attempt,      \* local `attempt` of c.loop
  backoffArg,   \* argument of the last RetryConnect.Next call (-1: none yet)
  conns,        \* metric_grpc_conns (connection attempts) of this Conn
  connsErr,     \* metric_grpc_conns_err of this Conn
  dialsOk,      \* number of successful dials; the live handle's identity
  connState,    \* connectivity state of the dialed handle
  connClosed,   \* conn.Close() has been called on the dialed handle
  closeCount,   \* number of close(c.requests) executed
  wPc,          \* position of the watchConnectionState goroutine
  wState,       \* its local `state` ("none": not read yet)
  gauge,        \* metric_conn_state of this Conn (-1: never set)
  wNotified,    \* the handle changed state since the watcher last looked
  callPc,       \* callPc[c]: position of caller c's GetConnection call
  callDone,     \* callDone[c]: the context of c's call in flight is done
  result,       \* result[c]: what c's last GetConnection call returned
  newCall,      \* the last call of New: its arguments and what it returned
  objs,         \* the Conns handed to a Pool: name and whether Start ran
  pool,         \* the Pool: NewPool's argument list and its conns map
  poolGet       \* the last call of Pool.Get: its argument and what it returned

vars == <<variant, ctxDone, startPc, startCtx, onceState, loopLaunches,
          loopCtx, loopOwner, loopPc, attempt, backoffArg, conns, connsErr,
          dialsOk, connState, connClosed, closeCount, wPc, wState, gauge,
          wNotified, callPc, callDone, result, newCall, objs, pool, poolGet>>

\* the state owned by the supervisor (Conn and its loop)
supervisorVars == <<onceState, loopLaunches, loopCtx, loopOwner, loopPc,
                    attempt, backoffArg, conns, connsErr, dialsOk, connState,
                    connClosed, closeCount>>

\* the state of the connection-state watcher and its gauge
watchVars  == <<wPc, wState, gauge, wNotified>>

startVars  == <<startPc, startCtx>>
callerVars == <<callPc, callDone, result>>

\* the constructor New and the Pool, which touch no running Conn
apiVars    == <<newCall, objs, pool, poolGet>>

\* the state of the one Conn whose Start, loop and GetConnection are modelled
connVars   == <<ctxDone, startVars, supervisorVars, watchVars, callerVars>>

\* ------------------------------------------------------------- helpers
\* c.requests has been closed (receive yields ok = false)
requestsClosed == closeCount > 0

\* ctx.Done() of the loop's ctx argument is readable
OuterCancelled == loopCtx # 0 /\ ctxDone[loopCtx]

\* connectivity states in which the transport cannot carry an RPC
InvalidStates == {"TransientFailure", "Shutdown"}
HandleValid == connState \notin InvalidStates

NoResult == [res |-> "none", conn |-> 0, valid |-> FALSE]

\* New has not been called / NewPool has not been called / Get has not
NoCall == [called |-> FALSE]
NoPool == [built |-> FALSE]
NoGet  == [called |-> FALSE]

\* what a returning GetConnection call leaves: the error (or "handle"), the
\* handle returned (0: nil) and whether the transport held that handle valid
\* at the instant of the return
Returned(r, h) == [res |-> r, conn |-> h, valid |-> h # 0 /\ HandleValid]

TypeOK ==
  /\ variant \in Variants
  /\ ctxDone \in [Ctxs -> BOOLEAN]
  /\ startPc \in [Starters -> {"idle", "calling", "inloop", "returned"}]
  /\ startCtx \in [Starters -> 0..NCtx]
  /\ onceState \in {"fresh", "running", "done"}
  /\ loopPc \in {"none", "top", "dial", "backoff", "serve", "exited"}
  /\ callPc \in [Callers -> {"idle", "waiting", "returned"}]
  /\ callDone \in [Callers -> BOOLEAN]

Init ==
  /\ variant \in Variants
  /\ ctxDone = [k \in Ctxs |-> FALSE]
  /\ startPc = [s \in Starters |-> "idle"]
  /\ startCtx = [s \in Starters |-> 0]
  /\ onceState = "fresh"
  /\ loopLaunches = 0
  /\ loopCtx = 0
  /\ loopOwner = 0
  /\ loopPc = "none"
  /\ attempt = 0
  /\ backoffArg = -1
  /\ conns = 0
  /\ connsErr = 0
  /\ dialsOk = 0
  /\ connState = "none"
  /\ connClosed = FALSE
  /\ closeCount = 0
  /\ wPc = "none"
  /\ wState = "none"
  /\ gauge = -1
  /\ wNotified = FALSE
  /\ callPc = [c \in Callers |-> "idle"]
  /\ callDone = [c \in Callers |-> FALSE]
  /\ result = [c \in Callers |-> NoResult]
  /\ newCall = NoCall
  /\ objs = <<>>
  /\ pool = NoPool
  /\ poolGet = NoGet

\* ------------------------------------------------------------ contexts
\* the owner of context k cancels it (or its deadline passes).  Once the loop
\* runs, its ctx is the only Start argument any code reads: the cancellation
\* of another one is not a step of this system.
CancelCtx(k) ==
  /\ ~ctxDone[k]
  /\ loopCtx \in {0, k}
  /\ ctxDone' = [ctxDone EXCEPT ![k] = TRUE]
  /\ UNCHANGED <<variant, apiVars, watchVars, startVars, supervisorVars, callerVars>>

\* --------------------------------------------------------------- Start
\* sync.Once.Do runs f only for the first caller
OnceAllows_noGuard(st) == st # "running"
OnceAllows(st) == st = "fresh"

\* conn.go: once.Do(func() { c.loop(ctx) }) runs the loop on the calling
\* goroutine; part_000/part_001: once.Do(func() { go c.loop(ctx) })
StartInline(v) == v = "conn_go"

\* a goroutine calls c.Start(ctx) with context k
StartCall(s, k) ==
  /\ startPc[s] = "idle"
  /\ startPc' = [startPc EXCEPT ![s] = "calling"]
  /\ startCtx' = [startCtx EXCEPT ![s] = k]
  /\ UNCHANGED <<variant, apiVars, watchVars, ctxDone, supervisorVars, callerVars>>

\* once.Do finds the Once fresh: f runs, c.loop(ctx) is entered.  With
\* `go c.loop(ctx)` f returns at once and so does Start; inline, Start stays
\* inside the loop and the Once stays locked until the loop returns.
StartLaunch(s) ==
  /\ startPc[s] = "calling"
  /\ OnceAllows(onceState)
  /\ loopLaunches' = loopLaunches + 1
  /\ loopCtx' = startCtx[s]
  /\ loopPc' = "top"
  /\ attempt' = 0
  /\ IF StartInline(variant)
       THEN /\ onceState' = "running"
            /\ loopOwner' = s
            /\ startPc' = [startPc EXCEPT ![s] = "inloop"]
       ELSE /\ onceState' = "done"
            /\ loopOwner' = loopOwner
            /\ startPc' = [startPc EXCEPT ![s] = "returned"]
  /\ startCtx' = [startCtx EXCEPT ![s] = 0]
  /\ UNCHANGED <<variant, apiVars, watchVars, ctxDone, backoffArg, conns, connsErr, dialsOk,
                 connState, connClosed, closeCount, callerVars>>

\* once.Do finds the Once done: Start returns without running f.  (While f is
\* still running, once.Do blocks on the Once's mutex: no step.)
StartNoop(s) ==
  /\ startPc[s] = "calling"
  /\ ~OnceAllows(onceState)
  /\ onceState = "done"
  /\ startPc' = [startPc EXCEPT ![s] = "returned"]
  /\ startCtx' = [startCtx EXCEPT ![s] = 0]
  /\ UNCHANGED <<variant, apiVars, watchVars, ctxDone, supervisorVars, callerVars>>

\* ---------------------------------------------------------------- loop
\* metric_grpc_conns.WithLabelValues(labels...).Inc()
ConnsInc_beforeLoop(n) == IF n = 0 THEN 1 ELSE n
ConnsInc(n) == n + 1

\* top of the outer for: count the attempt, start dialing
LoopTop ==
  /\ loopPc = "top"
  /\ conns' = ConnsInc(conns)
  /\ loopPc' = "dial"
  /\ UNCHANGED <<variant, apiVars, watchVars, ctxDone, startVars, onceState, loopLaunches, loopCtx,
                 backoffArg, loopOwner, attempt, connsErr, dialsOk, connState, connClosed,
                 closeCount, callerVars>>

\* metric_grpc_conns_err.WithLabelValues(labels...).Inc()
ErrInc_double(n) == n + 2
ErrInc(n) == n + 1

\* the argument of c.options.RetryConnect.Next in the backoff select
BackoffArg_total(a) == conns
BackoffArg(a) == a

\* the dial returned err != nil: count the error, enter the backoff select,
\* whose time.After(c.options.RetryConnect.Next(attempt)) is evaluated on entry
LoopDialFail ==
  /\ loopPc = "dial"
  /\ connsErr' = ErrInc(connsErr)
  /\ backoffArg' = BackoffArg(attempt)
  /\ loopPc' = "backoff"
  /\ UNCHANGED <<variant, apiVars, watchVars, ctxDone, startVars, onceState, loopLaunches, loopCtx,
                 loopOwner, attempt, conns, dialsOk, connState, connClosed,
                 closeCount, callerVars>>

\* the connectivity state of a freshly dialed handle: grpc.NewClient returns
\* an idle handle; DialContext returns it connecting, or ready under WithBlock
DialStates(v) == IF v = "part_000" THEN {"Idle"} ELSE {"Connecting", "Ready"}

\* `attempt = 0` after a successful dial exists only in conn.go
AttemptAfterDial(v, a) == IF v = "conn_go" THEN 0 ELSE a

\* grpc.DialContext(ctx, ...) returns ctx.Err() when its context is done by
\* the time it returns; grpc.NewClient takes no context
DialCanSucceed == variant = "part_000" \/ ~OuterCancelled

\* only part_000 has `go c.watchConnectionState(ctx, conn)`
HasWatcher(v) == v = "part_000"

\* the dial returned a handle: the watcher is spawned (part_000) and the loop
\* enters the serve loop
LoopDialOk ==
  /\ loopPc = "dial"
  /\ DialCanSucceed
  /\ dialsOk' = dialsOk + 1
  /\ connState' \in DialStates(variant)
  /\ attempt' = AttemptAfterDial(variant, attempt)
  /\ loopPc' = "serve"
  /\ wPc' = IF HasWatcher(variant) THEN "start" ELSE wPc
  /\ UNCHANGED <<variant, apiVars, wState, gauge, wNotified, ctxDone, startVars, onceState, loopLaunches, loopCtx,
                 backoffArg, loopOwner, conns, connsErr, connClosed, closeCount, callerVars>>

\* the backoff select takes `case <-time.After(...)`: the timer of the
\* (positive) backoff duration fires while ctx.Done() is not readable.  Once
\* ctx.Done() is readable the select, entered or parked, returns through it.
BackoffTimerWins_always == TRUE
BackoffTimerWins == ~OuterCancelled

\* case <-time.After(c.options.RetryConnect.Next(attempt)): attempt++; continue
LoopBackoffRetry ==
  /\ loopPc = "backoff"
  /\ BackoffTimerWins
  /\ attempt + 1 < MaxDials
  /\ attempt' = attempt + 1
  /\ loopPc' = "top"
  /\ UNCHANGED <<variant, apiVars, watchVars, ctxDone, startVars, onceState, loopLaunches, loopCtx,
                 backoffArg, loopOwner, conns, connsErr, dialsOk, connState, connClosed,
                 closeCount, callerVars>>

\* the deferred calls of c.loop, run by every return: close(c.requests), and
\* conn.Close() where `defer conn.Close()` was reached (not in conn.go);
\* in conn.go the return also ends once.Do and the Start call that ran it
HasDeferredClose(v) == v # "conn_go"

\* a state change of the handle closes the notification channel a blocked
\* WaitForStateChange holds
StateChanged == wPc = "wait" \/ wNotified

LoopReturn ==
  /\ loopPc' = "exited"
  /\ closeCount' = closeCount + 1
  /\ IF dialsOk > 0 /\ HasDeferredClose(variant)
       THEN /\ connClosed' = TRUE
            /\ connState' = "Shutdown"
            /\ wNotified' = StateChanged
       ELSE UNCHANGED <<connClosed, connState, wNotified>>
  /\ IF StartInline(variant)
       THEN /\ onceState' = "done"
            /\ startPc' = [startPc EXCEPT ![loopOwner] = "returned"]
       ELSE UNCHANGED <<onceState, startPc>>
  /\ UNCHANGED <<variant, apiVars, wPc, wState, gauge, ctxDone, startCtx, loopLaunches,
                 loopCtx, loopOwner, attempt, backoffArg, conns, connsErr,
                 dialsOk, callerVars>>

\* the backoff select's `case <-ctx.Done(): return`
BackoffCtxDone_always == TRUE
BackoffCtxDone == OuterCancelled

LoopBackoffExit ==
  /\ loopPc = "backoff"
  /\ BackoffCtxDone
  /\ LoopReturn

\* the serve select's `case <-ctx.Done(): return`.  In conn.go `ctx` is the
\* dial's context.WithTimeout(appCtx, ...), and cancel() has already been
\* called on it at line 142, so its Done channel is always readable here.
ServeCtxDone == IF variant = "conn_go" THEN TRUE ELSE OuterCancelled

LoopServeExit ==
  /\ loopPc = "serve"
  /\ ServeCtxDone
  /\ LoopReturn

\* the loop is at `case c.requests <- conn` of the serve select
CanOffer_beforeDial == loopPc \in {"dial", "serve"}
CanOffer == loopPc = "serve"

\* --------------------------------------------------------- GetConnection
\* `conn, ok := <-c.requests; if !ok { return nil, ErrShutdown }; return conn, nil`
RecvResult_ignoreOk(ok) == "handle"
RecvResult(ok) == IF ok THEN "handle" ELSE "ErrShutdown"

\* `<-ctx.Done()` of the call's own context is readable
CallCtxDone_shared(c) == \E d \in Callers : callDone[d]
CallCtxDone(c) == callDone[c]

\* a goroutine calls c.GetConnection(ctx) with a fresh, live context and
\* blocks in the select
GetBegin(c) ==
  /\ callPc[c] # "waiting"
  /\ callPc' = [callPc EXCEPT ![c] = "waiting"]
  /\ callDone' = [callDone EXCEPT ![c] = FALSE]
  /\ result' = [result EXCEPT ![c] = NoResult]
  /\ UNCHANGED <<variant, apiVars, watchVars, ctxDone, startVars, supervisorVars>>

\* the context of c's call in flight is cancelled or expires
CallerCancel(c) ==
  /\ callPc[c] = "waiting"
  /\ ~callDone[c]
  /\ callDone' = [callDone EXCEPT ![c] = TRUE]
  /\ UNCHANGED <<variant, apiVars, watchVars, ctxDone, startVars, supervisorVars, callPc, result>>

\* case <-ctx.Done(): return nil, ctx.Err()
GetCtxErr(c) ==
  /\ callPc[c] = "waiting"
  /\ CallCtxDone(c)
  /\ callPc' = [callPc EXCEPT ![c] = "returned"]
  /\ result' = [result EXCEPT ![c] = Returned("ctxErr", 0)]
  /\ callDone' = [callDone EXCEPT ![c] = FALSE]
  /\ UNCHANGED <<variant, apiVars, watchVars, ctxDone, startVars, supervisorVars>>

\* where the loop goes after `case c.requests <- conn`: the inner for has no
\* break, it selects again
AfterOffer_redial == IF HandleValid THEN "serve" ELSE "top"
AfterOffer == "serve"

\* the rendezvous on the unbuffered c.requests: the loop's send and c's
\* receive happen together; the loop stays in the serve loop
HandOff(c) ==
  /\ CanOffer
  /\ ~requestsClosed
  /\ callPc[c] = "waiting"
  /\ callPc' = [callPc EXCEPT ![c] = "returned"]
  /\ result' = [result EXCEPT ![c] = Returned(RecvResult(TRUE), dialsOk)]
  /\ callDone' = [callDone EXCEPT ![c] = FALSE]
  /\ loopPc' = AfterOffer
  /\ UNCHANGED <<variant, apiVars, watchVars, ctxDone, startVars, onceState, loopLaunches, loopCtx,
                 backoffArg, loopOwner, attempt, conns, connsErr, dialsOk, connState,
                 connClosed, closeCount>>

\* receive on the closed c.requests: ok = false
GetRecvClosed(c) ==
  /\ requestsClosed
  /\ callPc[c] = "waiting"
  /\ callPc' = [callPc EXCEPT ![c] = "returned"]
  /\ result' = [result EXCEPT ![c] = Returned(RecvResult(FALSE), 0)]
  /\ callDone' = [callDone EXCEPT ![c] = FALSE]
  /\ UNCHANGED <<variant, apiVars, watchVars, ctxDone, startVars, supervisorVars>>

\* ------------------------------------------------------------ transport
\* the transitions the transport makes on a handle that is not closed
\* (google.golang.org/grpc/connectivity)
TransportNext(st) ==
  CASE st = "Idle"             -> {"Connecting"}
    [] st = "Connecting"       -> {"Ready", "TransientFailure"}
    [] st = "Ready"            -> {"Idle", "TransientFailure"}
    [] st = "TransientFailure" -> {"Connecting"}
    [] OTHER                   -> {}

TransportChange ==
  /\ dialsOk > 0
  /\ ~connClosed
  /\ connState' \in TransportNext(connState)
  /\ wNotified' = StateChanged
  /\ UNCHANGED <<variant, apiVars, wPc, wState, gauge, ctxDone, startVars, onceState, loopLaunches, loopCtx,
                 backoffArg, loopOwner, loopPc, attempt, conns, connsErr, dialsOk,
                 connClosed, closeCount, callerVars>>

\* -------------------------------------------------- watchConnectionState
\* m.Set(float64(state)): the connectivity.State enumeration
StateNum(st) ==
  CASE st = "Idle"             -> 0
    [] st = "Connecting"       -> 1
    [] st = "Ready"            -> 2
    [] st = "TransientFailure" -> 3
    [] st = "Shutdown"         -> 4
    [] OTHER                   -> -1

\* conn.GetState()
GetState_stale == wState
GetState == connState

\* state := conn.GetState(); m.Set(float64(state)); then the first
\* conn.WaitForStateChange(ctx, state) is entered
WatchStart ==
  /\ wPc = "start"
  /\ wState' = GetState
  /\ gauge' = StateNum(wState')
  /\ wNotified' = FALSE
  /\ wPc' = "wait"
  /\ UNCHANGED <<variant, apiVars, ctxDone, startVars, supervisorVars, callerVars>>

\* WaitForStateChange returns true: the state differs from `state`, or the
\* notification channel it took on entry has been closed by a change
WaitSeesChange == wNotified \/ connState # wState

\* one pass of the for: WaitForStateChange returned true;
\* state = conn.GetState(); m.Set(float64(state)); wait again
WatchChange ==
  /\ wPc = "wait"
  /\ WaitSeesChange
  /\ wState' = GetState
  /\ gauge' = StateNum(wState')
  /\ wNotified' = FALSE
  /\ wPc' = "wait"
  /\ UNCHANGED <<variant, apiVars, ctxDone, startVars, supervisorVars, callerVars>>

\* WaitForStateChange returns false (`case <-ctx.Done()`): the for ends and
\* the goroutine returns
WatchEnd ==
  /\ wPc = "wait"
  /\ OuterCancelled
  /\ wPc' = "done"
  /\ UNCHANGED <<variant, apiVars, wState, gauge, wNotified, ctxDone, startVars,
                 supervisorVars, callerVars>>

Next ==
  \/ \E k \in Ctxs : CancelCtx(k)
  \/ \E s \in Starters, k \in Ctxs : StartCall(s, k)
  \/ \E s \in Starters : StartLaunch(s)
  \/ \E s \in Starters : StartNoop(s)
  \/ LoopTop
  \/ LoopDialFail
  \/ LoopDialOk
  \/ LoopBackoffRetry
  \/ LoopBackoffExit
  \/ LoopServeExit
  \/ \E c \in Callers : GetBegin(c)
  \/ \E c \in Callers : CallerCancel(c)
  \/ \E c \in Callers : GetCtxErr(c)
  \/ \E c \in Callers : HandOff(c)
  \/ \E c \in Callers : GetRecvClosed(c)
  \/ TransportChange
  \/ WatchStart
  \/ WatchChange
  \/ WatchEnd

Spec == Init /\ [][Next]_vars

\* The loop goroutine is scheduled: a dial returns, a fired timer or a done
\* context wakes the backoff select, and the serve select, which picks at
\* random among its ready cases, does not pass over a readable ctx.Done()
\* forever.
LoopFairness ==
  /\ WF_vars(LoopTop)
  /\ WF_vars(LoopDialFail \/ LoopDialOk)
  /\ WF_vars(LoopBackoffRetry)
  /\ WF_vars(LoopBackoffExit)
  /\ WF_vars(LoopServeExit)

FairSpec == Init /\ [][Next]_vars /\ LoopFairness

\* ============================================================== claims
\* caller c's GetConnection call returns in this step
Returns(c) == callPc[c] = "waiting" /\ callPc'[c] = "returned"

\* ------------------------------------------------------------------ C1
\* C1 (as stated): once the context passed to Start is cancelled, every
\* GetConnection call whose own context is live returns ErrShutdown, never a
\* handle.
C1_ShutdownAfterCancel ==
  [][\A c \in Callers :
       (OuterCancelled /\ Returns(c) /\ ~callDone[c])
          => result'[c].res = "ErrShutdown"]_vars

\* C1 (amended): once the loop has exited and closed the requests channel,
\* every GetConnection call that returns, in flight or begun later and however
\* many there are, returns no handle: it returns ErrShutdown, or its own
\* context's error when that context is done.
C1_ShutdownAfterExit ==
  [][\A c \in Callers :
       (requestsClosed /\ Returns(c))
          => /\ result'[c].res \in {"ErrShutdown", "ctxErr"}
             /\ result'[c].conn = 0
             /\ (~callDone[c] => result'[c].res = "ErrShutdown")]_vars

\* the outer context is cancelled, the loop has exited, one call has returned
\* ErrShutdown and a further call, begun after the exit, can only return it too
C1_Witness ==
  /\ OuterCancelled
  /\ loopPc = "exited"
  /\ \E c \in Callers :
       /\ result[c].res = "ErrShutdown"
       /\ \E d \in Callers \ {c} :
            /\ callPc[d] = "waiting"
            /\ ~callDone[d]
            /\ ENABLED GetRecvClosed(d)
            /\ ~ENABLED (HandOff(d) \/ GetCtxErr(d))

\* ------------------------------------------------------------------ C2
\* C2: the loop has exited (and closed the requests channel) only if the
\* context passed to Start is cancelled.
C2_ExitOnlyOnCancel ==
  (loopPc = "exited" \/ requestsClosed) => OuterCancelled

\* ------------------------------------------------------------------ C3
\* C3: a GetConnection call returns a handle only while the loop is in its
\* serve loop: at least one dial has succeeded, the loop has not exited, the
\* requests channel is open, and the handle is the dialed one (never nil).
C3_HandleOnlyWhileServing ==
  [][\A c \in Callers :
       (Returns(c) /\ result'[c].res = "handle")
          => /\ loopPc = "serve"
             /\ dialsOk >= 1
             /\ ~requestsClosed
             /\ result'[c].conn = dialsOk]_vars

\* a call has returned the handle and the loop is still serving
C3_Witness ==
  /\ loopPc = "serve"
  /\ \E c \in Callers : result[c].res = "handle" /\ result[c].conn = dialsOk

\* ------------------------------------------------------------------ C4
\* C4: however many Start calls are made, with whichever contexts, c.loop is
\* entered at most once, exactly once as soon as one Start call has got past
\* once.Do, and a Start call that finds the Once used changes nothing of
\* the supervisor.
C4_LaunchedOnce ==
  /\ [](/\ loopLaunches <= 1
        /\ (\E s \in Starters : startPc[s] \in {"inloop", "returned"})
              => loopLaunches = 1)
  /\ [][\A s \in Starters :
          (startPc[s] = "calling" /\ startPc'[s] # "calling" /\ loopLaunches >= 1)
             => UNCHANGED <<supervisorVars, ctxDone, callerVars>>]_vars

\* every Start call has returned and the loop was launched once
C4_Witness ==
  /\ \A s \in Starters : startPc[s] = "returned"
  /\ loopLaunches = 1

\* ------------------------------------------------------------------ C5
\* C5: no Start call ever waits: it is never inside the loop, and never
\* held by once.Do while another Start call's f is still running.
C5_StartNeverWaits ==
  \A s \in Starters :
    /\ startPc[s] # "inloop"
    /\ ~(startPc[s] = "calling" /\ onceState = "running")

\* ------------------------------------------------------------------ C6
\* C6 (as stated): the loop serves the handle only until the transport
\* invalidates it (then it redials), so no GetConnection call is handed a
\* handle the transport has invalidated.
C6_ServesUntilInvalidated ==
  \A c \in Callers : result[c].res = "handle" => result[c].valid

\* C6 (amended): after a successful dial the loop offers that one handle until
\* it exits; a transport invalidation neither stops the handle being offered
\* nor triggers a redial: the loop never dials again.
C6_ServesOneHandle ==
  /\ [](\A c \in Callers :
          (loopPc = "serve" /\ callPc[c] = "waiting") => ENABLED HandOff(c))
  /\ [][loopPc = "serve"
          => /\ loopPc' \in {"serve", "exited"}
             /\ dialsOk' = dialsOk
             /\ conns' = conns]_vars
  /\ [][\A c \in Callers :
          (Returns(c) /\ result'[c].res = "handle") => result'[c].conn = 1]_vars

\* the outer context is live, the transport has invalidated the handle, and
\* a call was handed that same handle while it was invalid
C6_Witness ==
  /\ loopPc = "serve"
  /\ ~OuterCancelled
  /\ ~HandleValid
  /\ \E c \in Callers :
       result[c].res = "handle" /\ ~result[c].valid /\ result[c].conn = dialsOk

\* ------------------------------------------------------------------ C7
\* the loop can hand the handle to caller d
Offerable(d) == CanOffer /\ ~requestsClosed /\ callPc[d] = "waiting"

\* C7: when the context of caller c's call is cancelled, and when that call
\* then returns the context's error, nothing of the supervisor changes, no
\* other call changes, and the handle stays as obtainable by the other
\* callers as before; only a call whose own context is done returns the
\* context's error.
C7_CallerCancelFrame ==
  [][\A c \in Callers :
       /\ ((callPc[c] = "waiting" /\ ~callDone[c] /\ callDone'[c])
             \/ (Returns(c) /\ result'[c].res = "ctxErr"))
            => /\ UNCHANGED <<supervisorVars, ctxDone, startVars>>
               /\ \A d \in Callers \ {c} :
                    /\ callPc'[d] = callPc[d]
                    /\ callDone'[d] = callDone[d]
                    /\ result'[d] = result[d]
                    /\ Offerable(d)' = Offerable(d)
       /\ (Returns(c) /\ result'[c].res = "ctxErr") => callDone[c]]_vars

\* one call returned its context's error while the loop is serving, and
\* another caller, in flight with a live context, can be handed the handle
C7_Witness ==
  \E c \in Callers, d \in Callers :
    /\ c # d
    /\ result[c].res = "ctxErr"
    /\ loopPc = "serve"
    /\ callPc[d] = "waiting"
    /\ ~callDone[d]
    /\ ENABLED HandOff(d)

\* ------------------------------------------------------------------ C8
\* C8: a GetConnection call returns (handle, nil), (nil, ctx error) or
\* (nil, ErrShutdown).  While no dial has succeeded, a call returns only its
\* own done context's error or, the outer context being cancelled,
\* ErrShutdown; with both contexts live it cannot return at all.
C8_DialFailureNotSurfaced ==
  /\ [](\A c \in Callers :
          /\ callPc[c] = "returned"
               => \/ result[c].res = "handle" /\ result[c].conn # 0
                  \/ result[c].res \in {"ctxErr", "ErrShutdown"} /\ result[c].conn = 0
          /\ (callPc[c] = "waiting" /\ dialsOk = 0 /\ ~callDone[c] /\ ~OuterCancelled)
               => ~ENABLED (GetCtxErr(c) \/ HandOff(c) \/ GetRecvClosed(c)))
  /\ [][\A c \in Callers :
          (Returns(c) /\ dialsOk = 0)
             => \/ result'[c].res = "ctxErr" /\ callDone[c]
                \/ result'[c].res = "ErrShutdown" /\ OuterCancelled]_vars

\* every dial so far has failed, at least twice, both contexts are live and a
\* call is still blocked
C8_Witness ==
  /\ dialsOk = 0
  /\ connsErr >= 2
  /\ ~OuterCancelled
  /\ loopPc \in {"top", "dial", "backoff"}
  /\ \E c \in Callers : callPc[c] = "waiting" /\ ~callDone[c]

\* ------------------------------------------------------------------ C9
\* C9: with K = the number of failed dials, the loop offers a handle, and a
\* call holds one, only when dial K+1 has succeeded: then exactly one dial has
\* succeeded, the attempts counter is K+1 and the attempts-error counter K.
C9_HandleAfterKFailures ==
  /\ loopPc = "serve" => (dialsOk = 1 /\ conns = connsErr + 1)
  /\ dialsOk = 0 => \A c \in Callers : result[c].res # "handle"
  /\ \A c \in Callers :
       result[c].res = "handle" => (dialsOk = 1 /\ conns = connsErr + 1)

\* two dials failed, the third succeeded and a call got the handle
C9_Witness ==
  /\ connsErr = 2
  /\ conns = 3
  /\ \E c \in Callers : result[c].res = "handle"

\* ----------------------------------------------------------------- C10
\* C10: once a dial has succeeded, a GetConnection call that returns while
\* its own context and the outer context are live returns the handle.
C10_LiveCallersGetHandle ==
  [][\A c \in Callers :
       (Returns(c) /\ dialsOk >= 1 /\ ~callDone[c] /\ ~OuterCancelled)
          => result'[c].res = "handle"]_vars

\* ----------------------------------------------------------------- C11
\* C11: when the loop has exited after at least one successful dial, the
\* requests channel is closed and the dialed handle has been closed.
C11_ExitReleasesHandle ==
  (loopPc = "exited" /\ dialsOk >= 1) => (requestsClosed /\ connClosed)

\* ----------------------------------------------------------------- C15
\* C15: once the outer context is cancelled the loop eventually exits and
\* closes the requests channel, whichever phase it is in; and a loop that is
\* in the backoff select when the context is cancelled leaves it only by
\* returning, without another dial.
C15_CancelEndsLoop ==
  /\ OuterCancelled ~> (loopPc = "exited" /\ requestsClosed)
  /\ [][(loopPc = "backoff" /\ OuterCancelled)
          => (loopPc' \in {"backoff", "exited"} /\ conns' = conns)]_vars

\* the loop returned from a backoff select on the cancellation: every dial
\* failed and none followed the last failure
C15_Witness ==
  /\ OuterCancelled
  /\ loopPc = "exited"
  /\ requestsClosed
  /\ dialsOk = 0
  /\ conns = connsErr
  /\ conns >= 1

C17_ClosedOnce ==
  /\ closeCount <= 1
  /\ requestsClosed => (loopPc = "exited" /\ ~CanOffer)

\* the channel has been closed, every Start call has returned and a call has
\* seen the closed channel
C17_Witness ==
  /\ closeCount = 1
  /\ \A s \in Starters : startPc[s] = "returned"
  /\ \E c \in Callers : result[c].res = "ErrShutdown"

\* ----------------------------------------------------------------- C18
\* C18: over the lifetime of a Conn at most one dial succeeds; after it no
\* attempt is counted and no dial is made, and every handle ever returned is
\* that one handle.
C18_SingleDial ==
  /\ [](/\ dialsOk <= 1
        /\ \A c \in Callers : result[c].res = "handle" => result[c].conn = 1)
  /\ [][dialsOk >= 1
          => /\ dialsOk' = dialsOk
             /\ conns' = conns
             /\ loopPc' \notin {"top", "dial"}]_vars

\* the loop's life is over: a dial failed, one succeeded, and both callers hold
\* the same handle
C18_Witness ==
  /\ loopPc = "exited"
  /\ connsErr >= 1
  /\ dialsOk = 1
  /\ \A c \in Callers : result[c].res = "handle" /\ result[c].conn = 1

\* ----------------------------------------------------------------- C19
\* C19: once the loop has exited it stays exited: no step, and no Start call
\* with whatever context, launches a loop, dials, or reopens or closes the
\* channel, and every GetConnection call with a live context returns
\* ErrShutdown.
C19_ShutdownTerminal ==
  /\ [][loopPc = "exited"
          => /\ loopPc' = "exited"
             /\ UNCHANGED <<closeCount, conns, connsErr, dialsOk, loopLaunches,
                            loopCtx, onceState>>]_vars
  /\ [][\A s \in Starters :
          (loopPc = "exited" /\ startPc[s] = "calling" /\ startPc'[s] # "calling")
             => (startPc'[s] = "returned" /\ UNCHANGED supervisorVars)]_vars
  /\ [][\A c \in Callers :
          (loopPc = "exited" /\ Returns(c) /\ ~callDone[c])
             => result'[c].res = "ErrShutdown"]_vars

\* after the loop's exit a Start call with a fresh live context is about to
\* return as a no-op, and a call has returned ErrShutdown
C19_Witness ==
  /\ loopPc = "exited"
  /\ \E s \in Starters :
       /\ startPc[s] = "calling"
       /\ startCtx[s] # loopCtx
       /\ ~ctxDone[startCtx[s]]
       /\ ENABLED StartNoop(s)
  /\ \E c \in Callers : result[c].res = "ErrShutdown"

\* ----------------------------------------------------------------- C20
\* C20: attempts_error <= attempts_total <= attempts_error + 1.  The attempts
\* counter grows by one at the top of each pass, before the dial, the error
\* counter by one at each failed dial; the two are equal before the first
\* dial and from a failed dial until the next pass, and differ by one while
\* dialing and from the successful dial on.
C20_CounterGap ==
  /\ [](/\ connsErr <= conns
        /\ conns <= connsErr + 1
        /\ loopPc \in {"none", "top", "backoff"} => conns = connsErr
        /\ loopPc \in {"dial", "serve"} => conns = connsErr + 1
        /\ loopPc = "exited" => (conns = connsErr <=> dialsOk = 0))
  /\ [][/\ conns' # conns
             => (conns' = conns + 1 /\ loopPc = "top" /\ loopPc' = "dial")
        /\ connsErr' # connsErr
             => (connsErr' = connsErr + 1 /\ loopPc = "dial" /\ loopPc' = "backoff")]_vars

\* two dials have failed and the third is under way
C20_Witness ==
  /\ loopPc = "dial"
  /\ connsErr = 2
  /\ conns = 3

\* ------------------------------------------------------------------ C12
\* a step in which the watcher executes m.Set: the first one of
\* watchConnectionState, or one pass of its for
WatcherWrites ==
  \/ wPc = "start" /\ wPc' = "wait"
  \/ /\ wPc = "wait" /\ wPc' = "wait"
     /\ wState' # wState \/ (wNotified /\ ~wNotified')

\* a step in which the handle under watch changes state
HandleTransition == wPc = "wait" /\ connState' # connState

\* C12 as stated: the gauge receives one value per transition of the handle,
\* equal to the new state and in the transport's order - so a transition finds
\* the previous state already written, and every write after the first writes
\* a successor of the state written before - and nothing is written after
\* WaitForStateChange returned false.
C12_OneWritePerTransition ==
  [][ /\ HandleTransition => gauge = StateNum(connState)
      /\ (WatcherWrites /\ wPc = "wait") =>
           wState' \in TransportNext(wState) \cup {"Shutdown"}
      /\ wPc = "done" => (wPc' = "done" /\ gauge' = gauge) ]_vars

\* C12 amended: the watcher samples.  Each write sets the gauge to the state
\* the handle has at that moment, the gauge always shows the state last
\* sampled (so it lags only while WaitForStateChange is due to return true),
\* a revision without watcher never sets it, and nothing is written after
\* WaitForStateChange returned false.  Transitions that happen between two
\* samples are not written.
C12_GaugeSamplesState ==
  [][ /\ WatcherWrites => gauge' = StateNum(connState)
      /\ (wPc' \in {"wait", "done"}) => gauge' = StateNum(wState')
      /\ (wPc' \in {"none", "start"}) => gauge' = -1
      /\ (wPc' = "wait" /\ gauge' # StateNum(connState')) => WaitSeesChange'
      /\ ~HasWatcher(variant) => wPc' = "none"
      /\ wPc = "done" => (wPc' = "done" /\ gauge' = gauge) ]_vars

\* the watcher has written Idle and waits; the handle has since gone through
\* Connecting to Ready, so the next write is Ready and Connecting is never
\* written
C12_Witness ==
  /\ wPc = "wait"
  /\ gauge = StateNum("Idle")
  /\ wNotified
  /\ connState = "Ready"

\* =================================================================== New
\* strings are sequences of characters; the characters that matter to New
NameChars == {"a", "b"}
AddrChars == {"h", ":", "[", "]", " "}
OptionValues == {"DefaultOptions", "custom"}
DefaultOptions == "DefaultOptions"

SeqsUpTo(S, n) == UNION {[1..k -> S] : k \in 0..n}

Names     == SeqsUpTo(NameChars, MaxNameLen)
Addresses == SeqsUpTo(AddrChars, MaxAddrLen)
OptLists  == SeqsUpTo(OptionValues, MaxOpts)

\* strings.IndexByte / strings.LastIndexByte, 1-based, 0 when absent
IndexByte(str, ch) ==
  IF \E i \in 1..Len(str) : str[i] = ch
  THEN CHOOSE i \in 1..Len(str) :
         str[i] = ch /\ \A j \in 1..(i - 1) : str[j] # ch
  ELSE 0
LastIndexByte(str, ch) ==
  IF \E i \in 1..Len(str) : str[i] = ch
  THEN CHOOSE i \in 1..Len(str) :
         str[i] = ch /\ \A j \in (i + 1)..Len(str) : str[j] # ch
  ELSE 0

\* the error of net.SplitHostPort(hostport), "" for nil
SplitHostPort(hostport) ==
  LET i == LastIndexByte(hostport, ":")
      bracket == hostport[1] = "["
      end == IndexByte(hostport, "]")
      j == IF bracket THEN 2 ELSE 1
      k == IF bracket THEN end + 1 ELSE 1
      rest(from) == SubSeq(hostport, from, Len(hostport))
  IN  IF i = 0 THEN "missing port in address"
      ELSE IF bracket /\ end = 0 THEN "missing ']' in address"
      ELSE IF bracket /\ end = Len(hostport) THEN "missing port in address"
      ELSE IF bracket /\ end + 1 # i
        THEN IF hostport[end + 1] = ":" THEN "too many colons in address"
             ELSE "missing port in address"
      ELSE IF ~bracket /\ IndexByte(SubSeq(hostport, 1, i - 1), ":") > 0
        THEN "too many colons in address"
      ELSE IF IndexByte(rest(j), "[") > 0 THEN "unexpected '[' in address"
      ELSE IF IndexByte(rest(k), "]") > 0 THEN "unexpected ']' in address"
      ELSE ""

\* strings.TrimSpace
IsSpace(ch) == ch = " "
RECURSIVE TrimLeft(_)
TrimLeft(str) ==
  IF str # <<>> /\ IsSpace(Head(str)) THEN TrimLeft(Tail(str)) ELSE str
RECURSIVE TrimRight(_)
TrimRight(str) ==
  IF str # <<>> /\ IsSpace(str[Len(str)])
  THEN TrimRight(SubSeq(str, 1, Len(str) - 1)) ELSE str
TrimSpace(str) == TrimRight(TrimLeft(str))

\* the address check of New: net.SplitHostPort in conn.go and part_001,
\* strings.TrimSpace(address) == "" in part_000; "" when it passes
AddressErr(v, address) ==
  IF v = "part_000"
  THEN IF TrimSpace(address) = <<>> THEN "empty address" ELSE ""
  ELSE IF SplitHostPort(address) # "" THEN "invalid address" ELSE ""

\* len(opts) > 1
TooManyOptions_any(opts) == Len(opts) >= 1
TooManyOptions(opts) == Len(opts) > 1

Nil == [nil |-> TRUE]

\* New(name, address, opts...): the pair (*Conn, error), "" for a nil error.
\* A Conn is constructed with an unused sync.Once: no loop runs.
New(v, name, address, opts) ==
  IF Len(name) = 0 THEN [conn |-> Nil, err |-> "specify name"]
  ELSE IF AddressErr(v, address) # ""
    THEN [conn |-> Nil, err |-> AddressErr(v, address)]
  ELSE IF TooManyOptions(opts)
    THEN [conn |-> Nil, err |-> "specify 0..1 Options"]
  ELSE [conn |-> [name |-> name, address |-> address,
                  options |-> IF Len(opts) = 0 THEN DefaultOptions
                              ELSE opts[1],
                  started |-> FALSE],
        err |-> ""]

\* the call of New by the program that constructs the Conn, with any
\* arguments
NewCall ==
  /\ ~newCall.called
  /\ \E name \in Names, address \in Addresses, opts \in OptLists :
       newCall' = [called |-> TRUE, name |-> name, address |-> address,
                   opts |-> opts, ret |-> New(variant, name, address, opts)]
  /\ UNCHANGED <<variant, connVars, objs, pool, poolGet>>

NewNext == NewCall

NewSpec == Init /\ [][NewNext]_vars

\* ------------------------------------------------------------------ C14
\* endpoint syntax, stated apart from the validators: a host:port pair is a
\* host without colon or bracket, or a bracketed host without inner bracket,
\* then a colon, then a port without colon or bracket
Plain(str) == \A i \in 1..Len(str) : str[i] \notin {":", "[", "]"}
HostPort(str) ==
  \E i \in 1..Len(str) :
    /\ str[i] = ":"
    /\ Plain(SubSeq(str, i + 1, Len(str)))
    /\ \/ Plain(SubSeq(str, 1, i - 1))
       \/ /\ i >= 3
          /\ str[1] = "["
          /\ str[i - 1] = "]"
          /\ \A m \in 2..(i - 2) : str[m] \notin {"[", "]"}
NonBlank(str) == \E i \in 1..Len(str) : str[i] # " "
ValidEndpoint(v, str) == IF v = "part_000" THEN NonBlank(str) ELSE HostPort(str)

\* C14: New returns an error and no Conn when the name is empty, the address
\* fails the revision's endpoint validation or more than one Options value
\* is passed; otherwise no error and a Conn that carries the name and the
\* address given, opts[0] or else DefaultOptions, and whose loop is not
\* started.
C14_NewValidates ==
  newCall.called =>
    IF \/ Len(newCall.name) = 0
       \/ ~ValidEndpoint(variant, newCall.address)
       \/ Len(newCall.opts) > 1
    THEN newCall.ret.err # "" /\ newCall.ret.conn = Nil
    ELSE /\ newCall.ret.err = ""
         /\ newCall.ret.conn # Nil
         /\ newCall.ret.conn.name = newCall.name
         /\ newCall.ret.conn.address = newCall.address
         /\ newCall.ret.conn.options =
              (IF Len(newCall.opts) = 0 THEN DefaultOptions
               ELSE newCall.opts[1])
         /\ ~newCall.ret.conn.started
         /\ loopLaunches = 0 /\ onceState = "fresh"

\* New was given one Options value other than the default and a bracketed
\* host:port address, and returned a Conn that carries them
C14_Witness ==
  /\ newCall.called
  /\ newCall.opts = <<"custom">>
  /\ newCall.address = <<"[", "]", ":">>
  /\ newCall.ret.err = ""
  /\ newCall.ret.conn.options = "custom"

\* New was given two Options values and returned an error and no Conn
C14_WitnessRejected ==
  /\ newCall.called
  /\ Len(newCall.name) > 0
  /\ Len(newCall.opts) = 2
  /\ newCall.ret.conn = Nil

\* ================================================================== Pool
\* A *Conn is its index in objs.  The program constructs Conns with New
\* (default options, a host:port address) and may call Start on any of them.
PoolAddress == <<"h", ":">>

PoolNewConn(name) ==
  /\ Len(objs) < MaxConns
  /\ New(variant, name, PoolAddress, <<>>).err = ""
  /\ objs' = Append(objs, New(variant, name, PoolAddress, <<>>).conn)
  /\ UNCHANGED <<variant, connVars, newCall, pool, poolGet>>

\* Start on the i-th Conn: its once.Do launches its loop
PoolStartConn(i) ==
  /\ ~objs[i].started
  /\ objs' = [objs EXCEPT ![i].started = TRUE]
  /\ UNCHANGED <<variant, connVars, newCall, pool, poolGet>>

\* p.conns[x.GetName()] = x
PoolPut_keepFirst(m, x) ==
  [n \in DOMAIN m \cup {objs[x].name} |-> IF n \in DOMAIN m THEN m[n] ELSE x]
PoolPut(m, x) ==
  [n \in DOMAIN m \cup {objs[x].name} |-> IF n = objs[x].name THEN x ELSE m[n]]

\* for _, x := range xs { ... }, from the empty map
RECURSIVE BuildPool(_, _)
BuildPool(m, xs) ==
  IF xs = <<>> THEN m ELSE BuildPool(PoolPut(m, Head(xs)), Tail(xs))

\* NewPool(xs...): the pair (*Pool, error)
NewPool(xs) ==
  /\ ~pool.built
  /\ pool' = [built |-> TRUE, xs |-> xs, conns |-> BuildPool(<<>>, xs),
              err |-> ""]
  /\ UNCHANGED <<variant, connVars, newCall, objs, poolGet>>

\* c, found := p.conns[name]: the zero value nil for a missing key
Get(name) ==
  IF name \in DOMAIN pool.conns
  THEN [conn |-> pool.conns[name], found |-> TRUE]
  ELSE [conn |-> Nil, found |-> FALSE]

PoolGet(name) ==
  /\ pool.built
  /\ poolGet' = [called |-> TRUE, name |-> name, ret |-> Get(name)]
  /\ UNCHANGED <<variant, connVars, newCall, objs, pool>>

PoolNext ==
  \/ \E name \in Names : PoolNewConn(name)
  \/ \E i \in 1..Len(objs) : PoolStartConn(i)
  \/ \E xs \in SeqsUpTo(1..Len(objs), MaxPool) : NewPool(xs)
  \/ \E name \in Names : PoolGet(name)

\* the Pool does not depend on the revision of Conn
PoolInit == Init /\ variant = "part_000"
PoolSpec == PoolInit /\ [][PoolNext]_vars

\* ------------------------------------------------------------------ C13
\* the positions of NewPool's argument list that carry the name
Carriers(p, name) == {i \in 1..Len(p.xs) : objs[p.xs[i]].name = name}
Last(S) == CHOOSE i \in S : \A j \in S : j <= i

====
